---- MODULE Spec2Model ----
(***************************************************************************)
(* Model of the oci-cli command-line client (src/unnamed/part_000, lines   *)
(* 1-713; src/oci_cli.go holds an older revision of the same walker).      *)
(*                                                                         *)
(* The remote control plane is modelled by the data it serves (the         *)
(* compartment tree and the pages of every scope's listing, the images of  *)
(* every scope, the shapes, the instances) and by the requests it has      *)
(* received (log).                                                         *)
(* Every remote call may fail.  The local program is modelled step by      *)
(* step: recursion of listCompartmentsRecursive is an explicit call stack. *)
(***************************************************************************)
EXTENDS Integers, Sequences, FiniteSets, TLC

VARIABLES
    cmd,        \* the entry point being run: a command ("walk", "create", "list",
                \* "info", "list-images", "list-shapes") or a resolver on its own
                \* ("resolve", "image", "shape")
    pc,         \* position of the running command
    parent,     \* remote: parent[c] is the scope compartment c is listed under
    absent,     \* remote: <<c, field>> when compartment c is served without that field, else <<>>
    pages,      \* remote: pages[s] is the paged listing of scope s (a sequence of pages)
    cname,      \* remote: cname[c] is the display name of compartment c
    stack,      \* walker: call stack of listCompartmentsRecursive frames
    ret,        \* walker: value being returned to the caller: "none", "nil" or "err"
    log,        \* every remote request issued so far, in order
    out,        \* what the command printed so far (visits, warnings), in order
    exit,       \* process exit status: -1 while running, 0 success, 1 failure, 2 panic
    input,      \* the --compartment-id value handed to resolveCompartmentID
    res,        \* what the last resolver call returned: [kind, id]
    images,     \* remote: images[s] is the image listing of scope s, in response order
    imageName,  \* the --image-name value
    compartmentID, \* the compartment identifier the command works in
    found,      \* resolveImageNameToID: the Items of the response it returns from
    shapes,     \* remote: the shapes the service lists for the image, in response order
    shapeName,  \* the --shape-name value
    publicKeys, \* the --public-keys value, a sequence of characters
    ocpus,      \* the --ocpus value
    memoryInGBs, \* the --memory-in-gbs value
    imageID,    \* instances create: the resolved image identifier
    launch,     \* instances create: the LaunchInstanceDetails submitted
    instances,  \* remote: the compute instances, each with its lifecycle state
    missing,    \* instances create: a flag marked required was not given
    tenancyFlag, \* the --tenancy value
    idFlag,     \* the --id value
    nameFlag,   \* the --name value of instances info
    platformFlag, \* the --platform value
    instanceID  \* instances info: the identifier GetInstance is called with

vars == <<cmd, pc, parent, absent, pages, cname, stack, ret, log, out, exit, input, res,
          images, imageName, compartmentID, found,
          shapes, shapeName, publicKeys, ocpus, memoryInGBs, imageID, launch,
          instances, missing, tenancyFlag, idFlag, nameFlag, platformFlag, instanceID>>

catalog == <<parent, absent, pages, cname, images, shapes>>
remote == <<catalog, instances>>
walker == <<stack, ret>>
flags == <<shapeName, publicKeys, ocpus, memoryInGBs,
           missing, tenancyFlag, idFlag, nameFlag, platformFlag>>
imgvars == <<imageName, compartmentID, found, flags, imageID, launch, instanceID>>

(***************************************************************************)
(* Bounds of the model.                                                    *)
(***************************************************************************)
MaxComps == 3
MaxPages == 2

(***************************************************************************)
(* Identifiers.  The tenancy root is scope 0; compartments are 1..MaxComps.*)
(***************************************************************************)
TenancyOCID == 0
Comps == 1..MaxComps
Scopes == {TenancyOCID} \cup Comps
NoPage == <<>>
Fields == {"Id", "Name", "Description"}

(***************************************************************************)
(* The remote data: every finite acyclic tree over Comps rooted at the     *)
(* tenancy, and every split of a scope's listing into consecutive pages.   *)
(***************************************************************************)
RECURSIVE Reaches(_, _, _)
Reaches(par, c, n) ==
    IF par[c] = TenancyOCID THEN TRUE
    ELSE IF n = 0 THEN FALSE
    ELSE Reaches(par, par[c], n - 1)

Trees == {par \in [Comps -> Scopes] : \A c \in Comps : Reaches(par, c, MaxComps)}

RECURSIVE SortedSeq(_)
SortedSeq(S) ==
    IF S = {} THEN <<>>
    ELSE LET m == CHOOSE x \in S : \A y \in S : x <= y
         IN <<m>> \o SortedSeq(S \ {m})

Listing(par, s) == SortedSeq({c \in Comps : par[c] = s})

\* The pages cut out of seq at the increasing interior positions cuts.
RECURSIVE CutPages(_, _, _)
CutPages(seq, cuts, from) ==
    IF cuts = {} THEN <<SubSeq(seq, from, Len(seq))>>
    ELSE LET k == CHOOSE x \in cuts : \A y \in cuts : x <= y
         IN <<SubSeq(seq, from, k)>> \o CutPages(seq, cuts \ {k}, k + 1)

\* Position of c in seq (0 when absent).
RECURSIVE IndexOf(_, _, _)
IndexOf(seq, c, k) ==
    IF k > Len(seq) THEN 0
    ELSE IF seq[k] = c THEN k
    ELSE IndexOf(seq, c, k + 1)

\* brk is the set of compartments that open a new page of their scope's
\* listing; the first compartment of a listing opens no new page.
CutsOf(par, brk, s) ==
    {IndexOf(Listing(par, s), c, 1) - 1 : c \in {x \in brk : par[x] = s}}

Breaks(par) ==
    {brk \in SUBSET Comps :
        \A s \in Scopes :
            /\ 0 \notin CutsOf(par, brk, s)
            /\ Cardinality(CutsOf(par, brk, s)) < MaxPages}

PagesOf(par, brk) ==
    [s \in Scopes |-> CutPages(Listing(par, s), CutsOf(par, brk, s), 1)]

(***************************************************************************)
(* Strings.  A string is the sequence of its dot-separated segments:       *)
(* "ocid1.compartment.oc1..c1" is <<"ocid1", "compartment", "oc1", "",     *)
(* "c1">>.  A display name without a dot is a sequence of one segment.     *)
(***************************************************************************)
\* strings.HasPrefix(s, p + "."), p given without its final dot.
HasPrefixDot(s, p) == Len(s) > Len(p) /\ SubSeq(s, 1, Len(p)) = p

CompLabel == <<"c1", "c2", "c3", "c4", "c5", "c6">>
\* The identifier the service assigned to compartment c (*compartment.Id).
OcidOf(c) == <<"ocid1", "compartment", "oc1", "", CompLabel[c]>>
TenancyOcidString == <<"ocid1", "tenancy", "oc1", "", "t">>

Names == {<<"dev">>, <<"Dev">>, <<"prod">>}
Inputs == Names \cup
    {OcidOf(1), TenancyOcidString,
     <<"ocid1", "compartment", "oc1", "">>,
     <<"ocid1", "instance", "oc1", "", "i">>,
     <<"ocid1", "compartment", "oc1">>,
     <<"ocid1">>}

\* Lower-case form of a display name (used by a mutation only).
FoldSegment(x) == IF x = "Dev" THEN "dev" ELSE x
Fold(str) == [k \in 1..Len(str) |-> FoldSegment(str[k])]

NoResult == [kind |-> "none", id |-> <<>>]
Ok(id) == [kind |-> "ok", id |-> id]
Err(kind) == [kind |-> kind, id |-> <<>>]

(***************************************************************************)
(* The identity service.  A continuation token is opaque to the client;    *)
(* the service hands out <<scope, k>> for page k of a scope's listing and  *)
(* rejects a token presented with another scope.                           *)
(***************************************************************************)
\* A request as the service received it, with whether it answered (ok) or
\* the call failed.
Request(op, scope, page, filter, ok) ==
    [op |-> op, scope |-> scope, page |-> page, filter |-> filter, ok |-> ok]

PageAccepted(scope, page) ==
    \/ page = NoPage
    \/ /\ page[1] = scope
       /\ page[2] \in 1..Len(pages[scope])

ListCompartmentsResponse(scope, page) ==
    LET k == IF page = NoPage THEN 1 ELSE page[2]
    IN [items |-> pages[scope][k],
        OpcNextPage |-> IF k < Len(pages[scope]) THEN <<scope, k + 1>> ELSE NoPage]

\* A compartment served without one of its fields: dereferencing it panics.
HasField(c, f) == absent # <<c, f>>

(***************************************************************************)
(* listCompartmentsRecursive as a call stack.  A frame is one activation:  *)
(* st = "call" before its ListCompartments request, "loop" while ranging   *)
(* over response.Items, "child" while the recursive call for Items[i] runs,*)
(* "page" while the call for the next page runs.                           *)
(***************************************************************************)
Frame(scope, page, depth) ==
    [scope |-> scope, page |-> page, depth |-> depth, st |-> "call",
     items |-> <<>>, i |-> 1, OpcNextPage |-> NoPage]

Top == stack[Len(stack)]
Pop == SubSeq(stack, 1, Len(stack) - 1)
SetTop(f) == [stack EXCEPT ![Len(stack)] = f]

\* Mutation of HasNextPage: the walker stops after the first page of a scope.
HasNextPageNever(f) == FALSE

\* if response.OpcNextPage != nil
HasNextPage(f) == f.OpcNextPage # NoPage

\* Mutation of NextRequestPage: the next request repeats the page of the
\* request instead of taking the token of the response.
NextRequestPageStale(f) == f.page

\* nextRequest := *request; nextRequest.Page = response.OpcNextPage
NextRequestPage(f) == f.OpcNextPage

\* The request of the recursive call for compartment c.
SubRequestPage(f) == NoPage

\* Mutation of ChildDepth: the recursive call keeps the depth of its caller.
ChildDepthSame(f) == f.depth

\* listCompartmentsRecursive(client, &subRequest, depth+1)
ChildDepth(f) == f.depth + 1

\* Mutation of ContinuesLoop: the error of a recursive call is dropped and
\* the loop goes on.
ContinuesLoopAlways(f, r) == f.st = "child"

\* err = listCompartmentsRecursive(...); if err != nil { return err }: the
\* loop goes on after a recursive call that returned nil.
ContinuesLoop(f, r) == f.st = "child" /\ r = "nil"

\* compartments list: Run builds the root request and starts the walk.
CompartmentsListRun ==
    /\ cmd = "walk" /\ pc = "start"
    /\ stack' = <<Frame(TenancyOCID, NoPage, 0)>>
    /\ pc' = "walking"
    /\ UNCHANGED <<remote, cmd, ret, log, out, exit, input, res, imgvars>>

\* client.ListCompartments(ctx, *request) and the err check after it.
WalkListCompartments ==
    /\ cmd = "walk" /\ pc = "walking" /\ ret = "none"
    /\ stack # <<>> /\ Top.st = "call"
    /\ \E ok \in {b \in BOOLEAN : b => PageAccepted(Top.scope, Top.page)} :
        /\ log' = Append(log, Request("ListCompartments", Top.scope, Top.page, <<>>, ok))
        /\ IF ok
           THEN LET r == ListCompartmentsResponse(Top.scope, Top.page)
                IN /\ stack' = SetTop([Top EXCEPT !.st = "loop", !.items = r.items,
                                                    !.i = 1, !.OpcNextPage = r.OpcNextPage])
                   /\ ret' = ret
           ELSE /\ stack' = Pop
                /\ ret' = "err"
    /\ UNCHANGED <<remote, cmd, pc, out, exit, input, res, imgvars>>

\* One iteration of the range loop: print the compartment, then recurse.
WalkVisit ==
    /\ cmd = "walk" /\ pc = "walking" /\ ret = "none"
    /\ stack # <<>> /\ Top.st = "loop" /\ Top.i <= Len(Top.items)
    /\ LET c == Top.items[Top.i]
       IN IF \E f \in Fields : ~HasField(c, f)
          THEN \* nil pointer dereference in the Printf arguments
               /\ pc' = "panic" /\ exit' = 2
               /\ UNCHANGED <<stack, out>>
          ELSE /\ out' = Append(out, [kind |-> "visit", id |-> c, depth |-> Top.depth])
               /\ stack' = Append(SetTop([Top EXCEPT !.st = "child"]),
                                  Frame(c, SubRequestPage(Top), ChildDepth(Top)))
               /\ UNCHANGED <<pc, exit>>
    /\ UNCHANGED <<remote, cmd, ret, log, input, res, imgvars>>

\* After the loop: response.OpcNextPage != nil, request the next page.
WalkNextPage ==
    /\ cmd = "walk" /\ pc = "walking" /\ ret = "none"
    /\ stack # <<>> /\ Top.st = "loop" /\ Top.i > Len(Top.items)
    /\ HasNextPage(Top)
    /\ stack' = Append(SetTop([Top EXCEPT !.st = "page"]),
                       Frame(Top.scope, NextRequestPage(Top), Top.depth))
    /\ UNCHANGED <<remote, cmd, pc, ret, log, out, exit, input, res, imgvars>>

\* After the loop, no further page: return nil.
WalkReturnNil ==
    /\ cmd = "walk" /\ pc = "walking" /\ ret = "none"
    /\ stack # <<>> /\ Top.st = "loop" /\ Top.i > Len(Top.items)
    /\ ~HasNextPage(Top)
    /\ stack' = Pop
    /\ ret' = "nil"
    /\ UNCHANGED <<remote, cmd, pc, log, out, exit, input, res, imgvars>>

\* The caller takes the callee's result: inside the loop an error is
\* returned at once and nil continues the loop; the next-page call's result
\* is returned as it is.
WalkResume ==
    /\ cmd = "walk" /\ pc = "walking" /\ ret # "none"
    /\ stack # <<>>
    /\ IF ContinuesLoop(Top, ret)
       THEN /\ stack' = SetTop([Top EXCEPT !.st = "loop", !.i = Top.i + 1])
            /\ ret' = "none"
       ELSE /\ stack' = Pop
            /\ ret' = ret
    /\ UNCHANGED <<remote, cmd, pc, log, out, exit, input, res, imgvars>>

\* Back in Run: log.Fatal(err) on an error, else the command ends.
CompartmentsListEnd ==
    /\ cmd = "walk" /\ pc = "walking" /\ ret # "none"
    /\ stack = <<>>
    /\ pc' = "done"
    /\ exit' = IF ret = "err" THEN 1 ELSE 0
    /\ UNCHANGED <<remote, cmd, stack, ret, log, out, input, res, imgvars>>

(***************************************************************************)
(* The compute service's image listing.  A scope is named by its           *)
(* identifier string; a request for an unknown scope fails.  The service   *)
(* filters by display name itself; the client reads one response.          *)
(***************************************************************************)
MaxImages == 2

ImageNames == {<<"img">>, <<"other">>}
ScopeLabel == <<"t", "c1", "c2", "c3", "c4", "c5", "c6">>
PosLabel == <<"i1", "i2", "i3", "i4">>
ImageOcid(s, k) == <<"ocid1", "image", "oc1", "", ScopeLabel[s + 1], PosLabel[k]>>
UnknownCompartment == <<"ocid1", "compartment", "oc1", "", "zz">>

ScopeIndex(str) ==
    IF str = TenancyOcidString THEN TenancyOCID
    ELSE IF \E c \in Comps : OcidOf(c) = str THEN CHOOSE c \in Comps : OcidOf(c) = str
    ELSE -1

\* The listings of one scope: up to MaxImages images, each with a name.
ImageListings(s) ==
    UNION {{[k \in 1..n |-> [id |-> ImageOcid(s, k), name |-> nm[k]]] :
                nm \in [1..n -> ImageNames]} : n \in 0..MaxImages}

ListImagesResponse(scope, filter) ==
    LET Matches(im) == im.name = filter
    IN SelectSeq(images[ScopeIndex(scope)], Matches)

NoImages ==
    /\ images = [s \in Scopes |-> <<>>]
    /\ imageName = <<>> /\ compartmentID = <<>> /\ found = <<>>

NoShapeConfig == [present |-> FALSE, Ocpus |-> 0, MemoryInGBs |-> 0]
NoLaunch ==
    [sent |-> FALSE, CompartmentId |-> <<>>, ImageId |-> <<>>, Shape |-> <<>>,
     ssh_authorized_keys |-> <<>>, ShapeConfig |-> NoShapeConfig]

\* The state of instances create in the runs of the other entry points.
NoCreate ==
    /\ shapes = <<>> /\ shapeName = <<>> /\ publicKeys = <<>>
    /\ ocpus = 0 /\ memoryInGBs = 0 /\ imageID = <<>> /\ launch = NoLaunch

\* The flags and locals of the instance commands in the runs of the other
\* entry points.
NoInstanceFlags ==
    /\ missing = FALSE /\ tenancyFlag = <<>> /\ idFlag = <<>> /\ nameFlag = <<>>
    /\ platformFlag = FALSE /\ instanceID = <<>>

(***************************************************************************)
(* The compute instances of the service.  An instance has an identifier,   *)
(* the compartment it is in, a display name and a lifecycle state.         *)
(***************************************************************************)
InstanceOcid(k) == <<"ocid1", "instance", "oc1", "", PosLabel[k]>>

\* The remote instances after the service has handled request req: an
\* answered LaunchInstance adds an instance in state PROVISIONING; list and
\* get requests leave the instances as they are.
AfterCall(req, insts) ==
    IF req.op = "LaunchInstance" /\ req.ok
    THEN Append(insts, [id |-> InstanceOcid(Len(insts) + 1), comp |-> req.scope,
                        name |-> <<"new">>, state |-> "PROVISIONING"])
    ELSE insts

\* The Items of an answered ListInstances request for a compartment.
ListInstancesResponse(comp) ==
    LET In(x) == x.comp = comp IN SelectSeq(instances, In)

(***************************************************************************)
(* resolveCompartmentID.                                                   *)
(***************************************************************************)
\* Mutation of IsCompartmentOCID: the tenancy prefix is not recognised.
IsCompartmentOCIDNoTenancy(str) == HasPrefixDot(str, <<"ocid1", "compartment", "oc1">>)

\* strings.HasPrefix(input, "ocid1.compartment.oc1.") ||
\* strings.HasPrefix(input, "ocid1.tenancy.oc1.")
IsCompartmentOCID(str) ==
    \/ HasPrefixDot(str, <<"ocid1", "compartment", "oc1">>)
    \/ HasPrefixDot(str, <<"ocid1", "tenancy", "oc1">>)

\* Mutation of NameMatches: a comparison that ignores case.
NameMatchesFold(name, str) == Fold(name) = Fold(str)

\* *compartment.Name == input
NameMatches(name, str) == name = str

\* The loop over response.Items: the first item whose name is the input.
RECURSIVE FirstMatch(_, _)
FirstMatch(items, str) ==
    IF items = <<>> THEN Err("NotFoundError")
    ELSE IF NameMatches(cname[Head(items)], str) THEN Ok(OcidOf(Head(items)))
    ELSE FirstMatch(Tail(items), str)

\* The input already is an identifier: returned as it is.
ResolveCompartmentLiteral ==
    /\ pc = "resolveCompartment"
    /\ IsCompartmentOCID(input)
    /\ res' = Ok(input)
    /\ pc' = "resolved"
    /\ UNCHANGED <<remote, walker, cmd, log, out, exit, input, imgvars>>

\* The input is taken as a name: one ListCompartments request for the
\* tenancy root, then the loop over the items of that response.
ResolveCompartmentByName ==
    /\ pc = "resolveCompartment"
    /\ ~IsCompartmentOCID(input)
    /\ \E ok \in BOOLEAN :
        /\ log' = Append(log, Request("ListCompartments", TenancyOCID, NoPage, <<>>, ok))
        /\ res' = IF ok
                  THEN FirstMatch(ListCompartmentsResponse(TenancyOCID, NoPage).items, input)
                  ELSE Err("RemoteCallError")
    /\ pc' = "resolved"
    /\ UNCHANGED <<remote, walker, cmd, out, exit, input, imgvars>>

InitResolve ==
    /\ cmd = "resolve" /\ pc = "resolveCompartment"
    /\ parent \in Trees
    /\ \E brk \in Breaks(parent) : pages = PagesOf(parent, brk)
    /\ absent = <<>>
    /\ cname \in [Comps -> Names]
    /\ input \in Inputs
    /\ stack = <<>> /\ ret = "none" /\ log = <<>> /\ out = <<>> /\ exit = -1
    /\ res = NoResult
    /\ NoImages /\ NoCreate /\ NoInstanceFlags /\ instances = <<>>

NextResolve ==
    \/ ResolveCompartmentLiteral
    \/ ResolveCompartmentByName

SpecResolve == InitResolve /\ [][NextResolve]_vars

(***************************************************************************)
(* resolveImageNameToID(imageName, compartmentID, tenancyOCID, client).    *)
(***************************************************************************)
\* Mutation of SeveralFound: no warning is ever due.
SeveralFoundNever(items) == FALSE

\* len(response.Items) > 1
SeveralFound(items) == Len(items) > 1

\* Mutation of NoneFound: the fallback is tried whatever the primary returned.
NoneFoundAlways(items) == TRUE

\* len(response.Items) == 0
NoneFound(items) == Len(items) = 0

\* Mutation of PickImage: the last item of the response.
PickImageLast(items) == items[Len(items)].id

\* *response.Items[0].Id
PickImage(items) == items[1].id

\* The primary query: the images of the target compartment with the name.
ImagePrimary ==
    /\ pc = "resolveImage"
    /\ \E ok \in {b \in BOOLEAN : b => ScopeIndex(compartmentID) # -1} :
        /\ log' = Append(log, Request("ListImages", compartmentID, NoPage, imageName, ok))
        /\ IF ~ok
           THEN /\ res' = Err("RemoteCallError")
                /\ pc' = "imageResolved"
                /\ UNCHANGED <<out, found>>
           ELSE LET items == ListImagesResponse(compartmentID, imageName)
                IN IF NoneFound(items)
                   THEN /\ out' = Append(out, [kind |-> "info", id |-> imageName, depth |-> 0])
                        /\ pc' = "imageFallback"
                        /\ UNCHANGED <<res, found>>
                   ELSE /\ out' = IF SeveralFound(items)
                                  THEN Append(out, [kind |-> "warning", id |-> imageName,
                                                    depth |-> 0])
                                  ELSE out
                        /\ found' = items
                        /\ pc' = "imageReturn"
                        /\ UNCHANGED res
    /\ UNCHANGED <<remote, walker, cmd, exit, input, imageName, compartmentID,
                   flags, imageID, launch, instanceID>>

\* The fallback query: the same filter against the tenancy root.
ImageFallback ==
    /\ pc = "imageFallback"
    /\ \E ok \in BOOLEAN :
        /\ log' = Append(log, Request("ListImages", TenancyOcidString, NoPage, imageName, ok))
        /\ IF ~ok
           THEN /\ res' = Err("RemoteCallError")
                /\ pc' = "imageResolved"
                /\ UNCHANGED <<out, found>>
           ELSE LET items == ListImagesResponse(TenancyOcidString, imageName)
                IN IF Len(items) = 0
                   THEN /\ res' = Err("NotFoundError")
                        /\ pc' = "imageResolved"
                        /\ UNCHANGED <<out, found>>
                   ELSE /\ out' = IF SeveralFound(items)
                                  THEN Append(out, [kind |-> "warning", id |-> imageName,
                                                    depth |-> 0])
                                  ELSE out
                        /\ found' = items
                        /\ pc' = "imageReturn"
                        /\ UNCHANGED res
    /\ UNCHANGED <<remote, walker, cmd, exit, input, imageName, compartmentID,
                   flags, imageID, launch, instanceID>>

\* return *Items[0].Id, nil
ImageReturn ==
    /\ pc = "imageReturn"
    /\ res' = Ok(PickImage(found))
    /\ pc' = "imageResolved"
    /\ UNCHANGED <<remote, walker, cmd, log, out, exit, input, imgvars>>

InitImage ==
    /\ cmd = "image" /\ pc = "resolveImage"
    /\ parent = [c \in Comps |-> TenancyOCID]
    /\ pages = PagesOf(parent, {})
    /\ absent = <<>>
    /\ cname = [c \in Comps |-> <<"dev">>]
    /\ input = <<>>
    /\ \E it \in ImageListings(TenancyOCID), ic \in ImageListings(1) :
        images = [s \in Scopes |-> IF s = TenancyOCID THEN it ELSE IF s = 1 THEN ic ELSE <<>>]
    /\ imageName = <<"img">>
    /\ compartmentID \in {TenancyOcidString, OcidOf(1), OcidOf(2), UnknownCompartment}
    /\ found = <<>>
    /\ stack = <<>> /\ ret = "none" /\ log = <<>> /\ out = <<>> /\ exit = -1
    /\ res = NoResult
    /\ NoCreate /\ NoInstanceFlags /\ instances = <<>>

NextImage ==
    \/ ImagePrimary
    \/ ImageFallback
    \/ ImageReturn

SpecImage == InitImage /\ [][NextImage]_vars

\* Both resolvers, each on its own inputs.
InitResolvers == InitResolve \/ InitImage

NextResolvers == NextResolve \/ NextImage

SpecResolvers == InitResolvers /\ [][NextResolvers]_vars

(***************************************************************************)
(* resolveShapeNameToID(shapeName, compartmentID, imageID, client).        *)
(***************************************************************************)
NoShape == <<>>

\* Mutation of ShapeListed: only the first listed shape is compared.
ShapeListedFirst(items, name) == Len(items) > 0 /\ items[1] = name

\* for _, shape := range response.Items {
\*     if shape.Shape != nil && *shape.Shape == shapeName
ShapeListed(items, name) ==
    \E k \in 1..Len(items) : items[k] # NoShape /\ items[k] = name

ResolveShape ==
    /\ pc = "resolveShape"
    /\ \E ok \in BOOLEAN :
        /\ log' = Append(log, Request("ListShapes", compartmentID, NoPage, imageID, ok))
        /\ res' = IF ~ok THEN Err("RemoteCallError")
                  ELSE IF ShapeListed(shapes, shapeName) THEN Ok(shapeName)
                  ELSE Err("NotFoundError")
    /\ pc' = "shapeResolved"
    /\ UNCHANGED <<remote, walker, cmd, out, exit, input, imgvars>>

\* resolveShapeNameToID on its own, for every short list of compatible
\* shapes: names that differ in case only, and items without a name.
MaxShapes == 3
ShapeEntries == {<<"VM.Flex">>, <<"vm.flex">>, NoShape}

RECURSIVE ShapeListings(_)
ShapeListings(n) ==
    IF n = 0 THEN {<<>>}
    ELSE ShapeListings(n - 1) \cup
         {Append(l, e) : l \in {x \in ShapeListings(n - 1) : Len(x) = n - 1},
                         e \in ShapeEntries}

InitShape ==
    /\ cmd = "shape" /\ pc = "resolveShape"
    /\ parent = [c \in Comps |-> TenancyOCID]
    /\ pages = PagesOf(parent, {})
    /\ absent = <<>>
    /\ cname = [c \in Comps |-> <<"dev">>]
    /\ input = <<>>
    /\ images = [s \in Scopes |-> <<>>]
    /\ imageName = <<>> /\ found = <<>>
    /\ compartmentID = OcidOf(1) /\ imageID = ImageOcid(1, 1)
    /\ shapes \in ShapeListings(MaxShapes)
    /\ shapeName \in ShapeEntries \ {NoShape}
    /\ publicKeys = <<>> /\ ocpus = 0 /\ memoryInGBs = 0 /\ launch = NoLaunch
    /\ NoInstanceFlags /\ instances = <<>>
    /\ stack = <<>> /\ ret = "none" /\ log = <<>> /\ out = <<>> /\ exit = -1
    /\ res = NoResult

NextShape == ResolveShape

SpecShape == InitShape /\ [][NextShape]_vars

(***************************************************************************)
(* instances create.  Strings of --public-keys are sequences of            *)
(* characters; "\n" is the newline the keys are joined with.               *)
(***************************************************************************)
MaxKeyLen == 3
KeyChars == {"a", " ", ","}

RECURSIVE KeyStrings(_)
KeyStrings(n) ==
    IF n = 0 THEN {<<>>}
    ELSE KeyStrings(n - 1) \cup
         {Append(str, ch) : str \in {x \in KeyStrings(n - 1) : Len(x) = n - 1}, ch \in KeyChars}

\* strings.Split(s, ","): the pieces around every comma, empty pieces kept.
RECURSIVE Split(_)
Split(str) ==
    IF \A k \in 1..Len(str) : str[k] # "," THEN <<str>>
    ELSE LET k == CHOOSE i \in 1..Len(str) :
                      str[i] = "," /\ \A j \in 1..(i - 1) : str[j] # ","
         IN <<SubSeq(str, 1, k - 1)>> \o Split(SubSeq(str, k + 1, Len(str)))

\* strings.TrimSpace(s)
RECURSIVE TrimSpace(_)
TrimSpace(str) ==
    IF str = <<>> THEN str
    ELSE IF Head(str) = " " THEN TrimSpace(Tail(str))
    ELSE IF str[Len(str)] = " " THEN TrimSpace(SubSeq(str, 1, Len(str) - 1))
    ELSE str

\* The loop building sshKeysString, from index i on.
RECURSIVE JoinKeys(_, _)
JoinKeys(keys, i) ==
    IF i > Len(keys) THEN <<>>
    ELSE LET trimmedKey == TrimSpace(keys[i])
         IN (IF trimmedKey # <<>>
             THEN trimmedKey \o (IF i < Len(keys) THEN <<"\n">> ELSE <<>>)
             ELSE <<>>)
            \o JoinKeys(keys, i + 1)

SshKeysString(str) == JoinKeys(Split(str), 1)

\* Mutation of NoValidKeys: the check of the prepared keys is skipped.
NoValidKeysNever(str) == FALSE

\* if sshKeysString == "" { log.Fatalf("Error: No valid public SSH keys provided.") }
NoValidKeys(str) == SshKeysString(str) = <<>>

\* Steps 1-4 of Run: the flags are read; a given --compartment-id is
\* resolved, without it the tenancy root is the compartment.
\* rootCmd.Execute() with a flag marked required not given: the router
\* prints the error and Execute returns it without running the handler;
\* main drops the returned error and returns, so the exit status is 0.
RouterReject ==
    /\ cmd = "create" /\ pc = "start" /\ missing
    /\ out' = Append(out, [kind |-> "error", id |-> 0, depth |-> 0])
    /\ pc' = "done" /\ exit' = 0
    /\ UNCHANGED <<remote, walker, cmd, log, input, res, imgvars>>

CreateRun ==
    /\ cmd = "create" /\ pc = "start" /\ ~missing
    /\ IF input # <<>>
       THEN pc' = "resolveCompartment" /\ UNCHANGED compartmentID
       ELSE pc' = "resolveImage" /\ compartmentID' = TenancyOcidString
    /\ UNCHANGED <<remote, walker, cmd, log, out, exit, input, res,
                   imageName, found, flags, imageID, launch, instanceID>>

\* log.Fatalf when a resolver returned an error.
CreateFatal ==
    /\ cmd = "create" /\ pc \in {"resolved", "imageResolved", "shapeResolved"}
    /\ res.kind # "ok"
    /\ pc' = "done" /\ exit' = 1
    /\ UNCHANGED <<remote, walker, cmd, log, out, input, res, imgvars>>

\* Step 4 succeeded: on to step 5, the image.
CreateCompartmentResolved ==
    /\ cmd = "create" /\ pc = "resolved" /\ res.kind = "ok"
    /\ compartmentID' = res.id
    /\ pc' = "resolveImage"
    /\ UNCHANGED <<remote, walker, cmd, log, out, exit, input, res,
                   imageName, found, flags, imageID, launch, instanceID>>

\* Step 5 succeeded: on to step 6, the shape.
CreateImageResolved ==
    /\ cmd = "create" /\ pc = "imageResolved" /\ res.kind = "ok"
    /\ imageID' = res.id
    /\ pc' = "resolveShape"
    /\ UNCHANGED <<remote, walker, cmd, log, out, exit, input, res,
                   imageName, compartmentID, found, flags, launch, instanceID>>

\* Steps 6-8: the shape is listed; the SSH keys are prepared, and with no
\* key left the command ends in log.Fatalf.
CreateShapeResolved ==
    /\ cmd = "create" /\ pc = "shapeResolved" /\ res.kind = "ok"
    /\ IF NoValidKeys(publicKeys)
       THEN pc' = "done" /\ exit' = 1
       ELSE pc' = "launch" /\ UNCHANGED exit
    /\ UNCHANGED <<remote, walker, cmd, log, out, input, res, imgvars>>

\* Mutation of ShapeConfigFor: only --ocpus decides.
ShapeConfigForOcpusOnly(o, m) ==
    IF o # 0
    THEN [present |-> TRUE, Ocpus |-> o, MemoryInGBs |-> m]
    ELSE NoShapeConfig

\* if ocpusFlag != 0 || memoryInGBsFlag != 0
ShapeConfigFor(o, m) ==
    IF o # 0 \/ m # 0
    THEN [present |-> TRUE, Ocpus |-> o, MemoryInGBs |-> m]
    ELSE NoShapeConfig

\* Steps 9-14: the launch details are built and LaunchInstance is called.
CreateLaunch ==
    /\ cmd = "create" /\ pc = "launch"
    /\ launch' = [sent |-> TRUE, CompartmentId |-> compartmentID, ImageId |-> imageID,
                  Shape |-> shapeName,
                  ssh_authorized_keys |-> SshKeysString(publicKeys),
                  ShapeConfig |-> ShapeConfigFor(ocpus, memoryInGBs)]
    /\ \E ok \in BOOLEAN :
        LET req == Request("LaunchInstance", compartmentID, NoPage, imageID, ok)
        IN /\ log' = Append(log, req)
           /\ instances' = AfterCall(req, instances)
           /\ exit' = IF ok THEN 0 ELSE 1
    /\ pc' = "done"
    /\ UNCHANGED <<catalog, walker, cmd, out, input, res,
                   imageName, compartmentID, found, flags, imageID, instanceID>>

InitCreate ==
    /\ cmd = "create" /\ pc = "start"
    /\ parent = [c \in Comps |-> TenancyOCID]
    /\ \E brk \in Breaks(parent) : pages = PagesOf(parent, brk)
    /\ absent = <<>>
    /\ cname = [c \in Comps |-> IF c = 1 THEN <<"dev">> ELSE <<"prod">>]
    /\ input \in {<<>>, <<"dev">>, <<"Dev">>, OcidOf(1)}
    /\ \E nt \in 0..1, nc \in 0..1 :
        images = [s \in Scopes |->
                    IF s = TenancyOCID THEN [k \in 1..nt |-> [id |-> ImageOcid(s, k), name |-> <<"img">>]]
                    ELSE IF s = 1 THEN [k \in 1..nc |-> [id |-> ImageOcid(s, k), name |-> <<"img">>]]
                    ELSE <<>>]
    /\ imageName = <<"img">>
    /\ compartmentID = <<>> /\ found = <<>> /\ imageID = <<>>
    /\ shapes \in {<<>>, <<<<"VM.Flex">>>>}
    /\ shapeName = <<"VM.Flex">>
    /\ publicKeys \in KeyStrings(MaxKeyLen)
    /\ ocpus \in {0, 1} /\ memoryInGBs \in {0, 1}
    /\ launch = NoLaunch
    /\ missing \in BOOLEAN
    /\ tenancyFlag = <<>> /\ idFlag = <<>> /\ nameFlag = <<>>
    /\ platformFlag = FALSE /\ instanceID = <<>>
    /\ instances = <<>>
    /\ stack = <<>> /\ ret = "none" /\ log = <<>> /\ out = <<>> /\ exit = -1
    /\ res = NoResult

NextCreate ==
    \/ RouterReject
    \/ CreateRun
    \/ ResolveCompartmentLiteral
    \/ ResolveCompartmentByName
    \/ CreateFatal
    \/ CreateCompartmentResolved
    \/ ImagePrimary
    \/ ImageFallback
    \/ ImageReturn
    \/ CreateImageResolved
    \/ ResolveShape
    \/ CreateShapeResolved
    \/ CreateLaunch

SpecCreate == InitCreate /\ [][NextCreate]_vars

(***************************************************************************)
(* instances list.                                                         *)
(***************************************************************************)
MaxInstances == 2
InstanceNames == {<<"web">>, <<"db">>}

\* The instances of the service at the start of a command: up to
\* MaxInstances of them, in the tenancy root or in compartment 1.
RECURSIVE InstanceListings(_)
InstanceListings(n) ==
    IF n = 0 THEN {<<>>}
    ELSE InstanceListings(n - 1) \cup
         {Append(l, [id |-> InstanceOcid(n), comp |-> comp, name |-> nm, state |-> "RUNNING"]) :
            l \in {x \in InstanceListings(n - 1) : Len(x) = n - 1},
            comp \in {TenancyOcidString, OcidOf(1)}, nm \in InstanceNames}

\* Mutation of ListScopeChoice: a given --compartment-id wins over --tenancy.
ListScopeChoiceCompartmentFirst(tenancy, compartmentInput) ==
    IF compartmentInput # <<>> THEN "resolve" ELSE "tenancy"

\* if tenancyFlag != "" {...} else if compartmentInput != "" {...} else {...}
ListScopeChoice(tenancy, compartmentInput) ==
    IF tenancy # <<>> THEN "tenancy"
    ELSE IF compartmentInput # <<>> THEN "resolve"
    ELSE "tenancy"

\* The flags are read and the compartment to list is chosen.
ListRun ==
    /\ cmd = "list" /\ pc = "start"
    /\ IF ListScopeChoice(tenancyFlag, input) = "resolve"
       THEN pc' = "resolveCompartment" /\ UNCHANGED compartmentID
       ELSE pc' = "listInstances" /\ compartmentID' = TenancyOcidString
    /\ UNCHANGED <<remote, walker, cmd, log, out, exit, input, res,
                   imageName, found, flags, imageID, launch, instanceID>>

\* compartmentID, err = resolveCompartmentID(...); log.Fatalf on an error.
ListCompartmentResolved ==
    /\ cmd = "list" /\ pc = "resolved"
    /\ IF res.kind = "ok"
       THEN pc' = "listInstances" /\ compartmentID' = res.id /\ UNCHANGED exit
       ELSE pc' = "done" /\ exit' = 1 /\ UNCHANGED compartmentID
    /\ UNCHANGED <<remote, walker, cmd, log, out, input, res,
                   imageName, found, flags, imageID, launch, instanceID>>

\* One printed line for every item of a ListInstances response.
InstanceLines(items) ==
    [k \in 1..Len(items) |-> [kind |-> "instance", id |-> items[k].id, depth |-> 0]]

\* computeClient.ListInstances: log.Fatal on an error, else one line for
\* every instance and the handler returns.
ListInstancesCall ==
    /\ cmd = "list" /\ pc = "listInstances"
    /\ \E ok \in BOOLEAN :
        LET req == Request("ListInstances", compartmentID, NoPage, <<>>, ok)
        IN /\ log' = Append(log, req)
           /\ instances' = AfterCall(req, instances)
           /\ out' = IF ok THEN out \o InstanceLines(ListInstancesResponse(compartmentID))
                     ELSE out
           /\ exit' = IF ok THEN 0 ELSE 1
    /\ pc' = "done"
    /\ UNCHANGED <<catalog, walker, cmd, input, res, imgvars>>

InitList ==
    /\ cmd = "list" /\ pc = "start"
    /\ parent = [c \in Comps |-> TenancyOCID]
    /\ \E brk \in Breaks(parent) : pages = PagesOf(parent, brk)
    /\ absent = <<>>
    /\ cname = [c \in Comps |-> IF c = 1 THEN <<"dev">> ELSE <<"prod">>]
    /\ input \in {<<>>, <<"dev">>, <<"Dev">>, OcidOf(1)}
    /\ tenancyFlag \in {<<>>, <<"true">>}
    /\ instances \in InstanceListings(MaxInstances)
    /\ missing = FALSE /\ idFlag = <<>> /\ nameFlag = <<>>
    /\ platformFlag = FALSE /\ instanceID = <<>>
    /\ NoImages /\ NoCreate
    /\ stack = <<>> /\ ret = "none" /\ log = <<>> /\ out = <<>> /\ exit = -1
    /\ res = NoResult

NextList ==
    \/ ListRun
    \/ ResolveCompartmentLiteral
    \/ ResolveCompartmentByName
    \/ ListCompartmentResolved
    \/ ListInstancesCall

SpecList == InitList /\ [][NextList]_vars

(***************************************************************************)
(* instances info.                                                         *)
(***************************************************************************)
UnknownInstance == <<"ocid1", "instance", "oc1", "", "zz">>

\* The instance with identifier id exists on the service.
InstanceExists(id) == \E k \in 1..Len(instances) : instances[k].id = id

\* Mutation of GetInstanceRequest: the lookup is sent as a launch.
GetInstanceRequestAsLaunch(id, ok) == Request("LaunchInstance", id, NoPage, <<>>, ok)

\* core.GetInstanceRequest{InstanceId: ...} handed to computeClient.GetInstance
GetInstanceRequest(id, ok) == Request("GetInstance", id, NoPage, <<>>, ok)

\* if idFlag != "" && nameFlag != "" / else if idFlag != "" /
\* else if nameFlag != "" / else
InfoChoice(id, name) ==
    IF id # <<>> /\ name # <<>> THEN "both"
    ELSE IF id # <<>> THEN "id"
    ELSE IF name # <<>> THEN "name"
    ELSE "neither"

ErrorLine == [kind |-> "error", id |-> 0, depth |-> 0]

\* The flags are read: both or neither of --id and --name end the command
\* with os.Exit(1); --id goes to GetInstance; --name picks the compartment.
InfoRun ==
    /\ cmd = "info" /\ pc = "start"
    /\ LET choice == InfoChoice(idFlag, nameFlag)
       IN /\ pc' = CASE choice = "id" -> "getInstance"
                     [] choice = "name" /\ input = <<>> -> "listInstances"
                     [] choice = "name" /\ input # <<>> -> "resolveCompartment"
                     [] OTHER -> "done"
          /\ exit' = IF choice \in {"both", "neither"} THEN 1 ELSE exit
          /\ out' = IF choice \in {"both", "neither"} THEN Append(out, ErrorLine) ELSE out
          /\ instanceID' = IF choice = "id" THEN idFlag ELSE instanceID
          /\ compartmentID' = IF choice = "name" /\ input = <<>>
                              THEN TenancyOcidString ELSE compartmentID
    /\ UNCHANGED <<remote, walker, cmd, log, input, res,
                   imageName, found, flags, imageID, launch>>

\* compartmentID, err = resolveCompartmentID(...); os.Exit(1) on an error.
InfoCompartmentResolved ==
    /\ cmd = "info" /\ pc = "resolved"
    /\ IF res.kind = "ok"
       THEN pc' = "listInstances" /\ compartmentID' = res.id /\ UNCHANGED <<exit, out>>
       ELSE /\ pc' = "done" /\ exit' = 1 /\ out' = Append(out, ErrorLine)
            /\ UNCHANGED compartmentID
    /\ UNCHANGED <<remote, walker, cmd, log, input, res,
                   imageName, found, flags, imageID, launch, instanceID>>

\* The first item of the response whose display name is name, 0 if none.
FirstNamed(items, name) ==
    IF \E k \in 1..Len(items) : items[k].name = name
    THEN CHOOSE k \in 1..Len(items) :
            items[k].name = name /\ \A j \in 1..(k - 1) : items[j].name # name
    ELSE 0

\* ListInstances for the compartment and the loop over its items: the first
\* item with the display name goes to GetInstance; without one the handler
\* prints "No instance found ..." and returns.
InfoListInstances ==
    /\ cmd = "info" /\ pc = "listInstances"
    /\ \E ok \in BOOLEAN :
        LET req == Request("ListInstances", compartmentID, NoPage, <<>>, ok)
            items == ListInstancesResponse(compartmentID)
            k == FirstNamed(items, nameFlag)
        IN /\ log' = Append(log, req)
           /\ instances' = AfterCall(req, instances)
           /\ IF ~ok
              THEN /\ pc' = "done" /\ exit' = 1 /\ out' = Append(out, ErrorLine)
                   /\ UNCHANGED instanceID
              ELSE IF k # 0
              THEN /\ pc' = "getInstance" /\ instanceID' = items[k].id
                   /\ UNCHANGED <<exit, out>>
              ELSE /\ pc' = "done" /\ exit' = 0
                   /\ out' = Append(out, [kind |-> "notfound", id |-> 0, depth |-> 0])
                   /\ UNCHANGED instanceID
    /\ UNCHANGED <<catalog, walker, cmd, input, res,
                   imageName, compartmentID, found, flags, imageID, launch>>

\* computeClient.GetInstance: os.Exit(1) on an error (an unknown identifier
\* is one), else displayInstanceDetails and the handler returns.
InfoGetInstance ==
    /\ cmd = "info" /\ pc = "getInstance"
    /\ \E ok \in (IF InstanceExists(instanceID) THEN BOOLEAN ELSE {FALSE}) :
        LET req == GetInstanceRequest(instanceID, ok)
        IN /\ log' = Append(log, req)
           /\ instances' = AfterCall(req, instances)
           /\ out' = Append(out, IF ok THEN [kind |-> "instance", id |-> instanceID, depth |-> 0]
                                 ELSE ErrorLine)
           /\ exit' = IF ok THEN 0 ELSE 1
    /\ pc' = "done"
    /\ UNCHANGED <<catalog, walker, cmd, input, res, imgvars>>

InitInfo ==
    /\ cmd = "info" /\ pc = "start"
    /\ parent = [c \in Comps |-> TenancyOCID]
    /\ pages = PagesOf(parent, {})
    /\ absent = <<>>
    /\ cname = [c \in Comps |-> IF c = 1 THEN <<"dev">> ELSE <<"prod">>]
    /\ input \in {<<>>, <<"dev">>, <<"Dev">>}
    /\ idFlag \in {<<>>, InstanceOcid(1), UnknownInstance}
    /\ nameFlag \in {<<>>} \cup InstanceNames
    /\ instances \in InstanceListings(MaxInstances)
    /\ missing = FALSE /\ tenancyFlag = <<>> /\ platformFlag = FALSE /\ instanceID = <<>>
    /\ NoImages /\ NoCreate
    /\ stack = <<>> /\ ret = "none" /\ log = <<>> /\ out = <<>> /\ exit = -1
    /\ res = NoResult

(***************************************************************************)
(* instances list-images and instances list-shapes.                        *)
(***************************************************************************)
\* if platformFlag {...} else if compartmentInput != "" {...} else {...}
ImagesScopeChoice(platform, compartmentInput) ==
    IF platform THEN "tenancy"
    ELSE IF compartmentInput # <<>> THEN "resolve"
    ELSE "tenancy"

\* list-images, steps 1-4: the flags are read and the compartment of the
\* query is chosen.
ListImagesRun ==
    /\ cmd = "list-images" /\ pc = "start"
    /\ IF ImagesScopeChoice(platformFlag, input) = "resolve"
       THEN pc' = "resolveCompartment" /\ UNCHANGED compartmentID
       ELSE pc' = "listImages" /\ compartmentID' = TenancyOcidString
    /\ UNCHANGED <<remote, walker, cmd, log, out, exit, input, res,
                   imageName, found, flags, imageID, launch, instanceID>>

\* list-shapes, steps 1-4: a given --compartment-id is resolved, without it
\* the tenancy root is the compartment.
ListShapesRun ==
    /\ cmd = "list-shapes" /\ pc = "start"
    /\ IF input # <<>>
       THEN pc' = "resolveCompartment" /\ UNCHANGED compartmentID
       ELSE pc' = "listShapes" /\ compartmentID' = TenancyOcidString
    /\ UNCHANGED <<remote, walker, cmd, log, out, exit, input, res,
                   imageName, found, flags, imageID, launch, instanceID>>

\* resolveCompartmentID returned to list-images or list-shapes: log.Fatalf
\* on an error, else its result is the compartment of the query.
CatalogCompartmentResolved ==
    /\ cmd \in {"list-images", "list-shapes"} /\ pc = "resolved"
    /\ IF res.kind = "ok"
       THEN /\ pc' = IF cmd = "list-images" THEN "listImages" ELSE "listShapes"
            /\ compartmentID' = res.id /\ UNCHANGED exit
       ELSE pc' = "done" /\ exit' = 1 /\ UNCHANGED compartmentID
    /\ UNCHANGED <<remote, walker, cmd, log, out, input, res,
                   imageName, found, flags, imageID, launch, instanceID>>

\* list-images, steps 5-7: one ListImages request; log.Fatalf on an error,
\* else the images are printed.
ListImagesCall ==
    /\ cmd = "list-images" /\ pc = "listImages"
    /\ \E ok \in BOOLEAN :
        LET req == Request("ListImages", compartmentID, NoPage, <<>>, ok)
            items == images[ScopeIndex(compartmentID)]
        IN /\ log' = Append(log, req)
           /\ instances' = AfterCall(req, instances)
           /\ out' = IF ok
                     THEN out \o [k \in 1..Len(items) |->
                                    [kind |-> "image", id |-> items[k].id, depth |-> 0]]
                     ELSE out
           /\ exit' = IF ok THEN 0 ELSE 1
    /\ pc' = "done"
    /\ UNCHANGED <<catalog, walker, cmd, input, res, imgvars>>

\* list-shapes, steps 5-7: one ListShapes request; log.Fatalf on an error,
\* else the shapes are printed.
ListShapesCall ==
    /\ cmd = "list-shapes" /\ pc = "listShapes"
    /\ \E ok \in BOOLEAN :
        LET req == Request("ListShapes", compartmentID, NoPage, <<>>, ok)
        IN /\ log' = Append(log, req)
           /\ instances' = AfterCall(req, instances)
           /\ out' = IF ok
                     THEN out \o [k \in 1..Len(shapes) |->
                                    [kind |-> "shape", id |-> shapes[k], depth |-> 0]]
                     ELSE out
           /\ exit' = IF ok THEN 0 ELSE 1
    /\ pc' = "done"
    /\ UNCHANGED <<catalog, walker, cmd, input, res, imgvars>>

InitCatalog ==
    /\ cmd \in {"list-images", "list-shapes"} /\ pc = "start"
    /\ parent = [c \in Comps |-> TenancyOCID]
    /\ \E brk \in Breaks(parent) : pages = PagesOf(parent, brk)
    /\ absent = <<>>
    /\ cname = [c \in Comps |-> IF c = 1 THEN <<"dev">> ELSE <<"prod">>]
    /\ input \in {<<>>, <<"dev">>, <<"Dev">>, OcidOf(1)}
    /\ platformFlag \in (IF cmd = "list-images" THEN BOOLEAN ELSE {FALSE})
    /\ \E nt \in 0..1, nc \in 0..1 :
        images = [s \in Scopes |->
                    IF s = TenancyOCID THEN [k \in 1..nt |-> [id |-> ImageOcid(s, k), name |-> <<"img">>]]
                    ELSE IF s = 1 THEN [k \in 1..nc |-> [id |-> ImageOcid(s, k), name |-> <<"img">>]]
                    ELSE <<>>]
    /\ shapes \in {<<>>, <<<<"VM.Flex">>>>}
    /\ instances \in InstanceListings(1)
    /\ imageName = <<>> /\ compartmentID = <<>> /\ found = <<>>
    /\ shapeName = <<>> /\ publicKeys = <<>>
    /\ ocpus = 0 /\ memoryInGBs = 0 /\ imageID = <<>> /\ launch = NoLaunch
    /\ missing = FALSE /\ tenancyFlag = <<>> /\ idFlag = <<>> /\ nameFlag = <<>>
    /\ instanceID = <<>>
    /\ stack = <<>> /\ ret = "none" /\ log = <<>> /\ out = <<>> /\ exit = -1
    /\ res = NoResult

(***************************************************************************)
(* compartments list, on every tree and every paging.                      *)
(***************************************************************************)
AbsentChoices == {<<>>} \cup {<<c, f>> : c \in Comps, f \in Fields}

InitWalk ==
    /\ cmd = "walk" /\ pc = "start"
    /\ parent \in Trees
    /\ \E brk \in Breaks(parent) : pages = PagesOf(parent, brk)
    /\ absent \in AbsentChoices
    /\ cname = [c \in Comps |-> <<"dev">>]
    /\ stack = <<>> /\ ret = "none" /\ log = <<>> /\ out = <<>> /\ exit = -1
    /\ input = <<>> /\ res = NoResult
    /\ NoImages /\ NoCreate /\ NoInstanceFlags /\ instances = <<>>

NextWalk ==
    \/ CompartmentsListRun
    \/ WalkListCompartments
    \/ WalkVisit
    \/ WalkNextPage
    \/ WalkReturnNil
    \/ WalkResume
    \/ CompartmentsListEnd

SpecWalk == InitWalk /\ [][NextWalk]_vars

\* The command is one sequential program: as long as the handler has a next
\* step it takes it.
SpecWalkFair == SpecWalk /\ WF_vars(NextWalk)

(***************************************************************************)
(* Every command of the client.                                            *)
(***************************************************************************)
InitCommands == InitWalk \/ InitCreate \/ InitList \/ InitInfo \/ InitCatalog

NextCommands ==
    \/ NextWalk
    \/ NextCreate
    \/ ListRun
    \/ ListCompartmentResolved
    \/ ListInstancesCall
    \/ InfoRun
    \/ InfoCompartmentResolved
    \/ InfoListInstances
    \/ InfoGetInstance
    \/ ListImagesRun
    \/ ListShapesRun
    \/ CatalogCompartmentResolved
    \/ ListImagesCall
    \/ ListShapesCall

SpecCommands == InitCommands /\ [][NextCommands]_vars

(***************************************************************************)
(* Properties of the walk.                                                 *)
(***************************************************************************)
IsPrefix(a, b) == Len(a) <= Len(b) /\ a = SubSeq(b, 1, Len(a))

IsVisit(e) == e.kind = "visit"
Visits == SelectSeq(out, IsVisit)
VisitedIds == [k \in 1..Len(Visits) |-> Visits[k].id]

\* The compartments visited that are listed under scope s, in visit order.
RECURSIVE VisitedUnder(_, _)
VisitedUnder(ids, s) ==
    IF ids = <<>> THEN <<>>
    ELSE (IF parent[Head(ids)] = s THEN <<Head(ids)>> ELSE <<>>)
         \o VisitedUnder(Tail(ids), s)

\* The page tokens of the ListCompartments requests sent for scope s, in order.
RECURSIVE RequestedPages(_, _)
RequestedPages(l, s) ==
    IF l = <<>> THEN <<>>
    ELSE (IF Head(l).op = "ListCompartments" /\ Head(l).scope = s
          THEN <<Head(l).page>> ELSE <<>>)
         \o RequestedPages(Tail(l), s)

\* The tokens the service hands out for scope s, from the first request on:
\* each is the OpcNextPage of the response to the one before.
RECURSIVE TokenChain(_, _)
TokenChain(s, page) ==
    LET nxt == ListCompartmentsResponse(s, page).OpcNextPage
    IN IF nxt = NoPage THEN <<page>> ELSE <<page>> \o TokenChain(s, nxt)

WalkReturnedNil == cmd = "walk" /\ pc = "done" /\ exit = 0

\* C1: the walk started at the tenancy root never visits a compartment
\* twice, and a walk that returns without error has visited every
\* compartment of the remote tree, whatever the tree and the paging.
C1_VisitsEachExactlyOnce ==
    cmd = "walk" =>
        /\ \A j, k \in 1..Len(VisitedIds) : VisitedIds[j] = VisitedIds[k] => j = k
        /\ WalkReturnedNil => {VisitedIds[k] : k \in 1..Len(VisitedIds)} = Comps

\* A completed walk of a tree with a nested compartment whose root listing
\* came in more than one page.
C1_Witness ==
    /\ WalkReturnedNil
    /\ Len(VisitedIds) = MaxComps
    /\ Len(pages[TenancyOCID]) > 1
    /\ \E c \in Comps : parent[c] # TenancyOCID

\* C10: for every scope the pages requested follow the service's token
\* chain for that scope (first request without a token, each later request
\* with the token of the response before it), a walk that returns without
\* error has followed every scope's chain to its end, and the compartments
\* of a scope are visited in the order of its pages put end to end.
C10_PagesOfSameScopeInOrder ==
    cmd = "walk" =>
        \A s \in Scopes :
            /\ IsPrefix(RequestedPages(log, s), TokenChain(s, NoPage))
            /\ IsPrefix(VisitedUnder(VisitedIds, s), Listing(parent, s))
            /\ WalkReturnedNil =>
                /\ RequestedPages(log, s) = TokenChain(s, NoPage)
                /\ VisitedUnder(VisitedIds, s) = Listing(parent, s)

\* A completed walk in which some scope below the root was listed in two pages.
C10_Witness ==
    /\ WalkReturnedNil
    /\ \E s \in Comps : Len(RequestedPages(log, s)) > 1

\* A ListCompartments request of the walk has failed.
WalkCallFailed == cmd = "walk" /\ \E k \in 1..Len(log) : ~log[k].ok

\* C11: once a ListCompartments request of the walk has failed, at any
\* depth and on any page, no further request is sent and no further
\* compartment is visited, and the command ends with that error (log.Fatal,
\* exit status 1).
C11_FailureAbortsWalk ==
    /\ [][WalkCallFailed => (log' = log /\ out' = out)]_vars
    /\ [](WalkCallFailed => (exit # 0 /\ (stack = <<>> => ret = "err")))
    /\ []((WalkCallFailed /\ pc = "done") => exit = 1)

\* The request for a later page of a compartment's own listing failed after
\* a compartment had been visited, and the command has ended.
C11_Witness ==
    /\ WalkCallFailed /\ pc = "done" /\ exit = 1
    /\ log[Len(log)].scope # TenancyOCID /\ log[Len(log)].page # NoPage
    /\ Len(out) >= 2 /\ Len(log) >= 3

\* The process of the command has ended: the handler returned, or log.Fatal
\* or a panic ended it.
WalkEnded == cmd = "walk" /\ pc \in {"done", "panic"}

\* C12: on every finite acyclic compartment tree whose listings have
\* finitely many pages, the walk started at the tenancy root eventually
\* ends (its handler returns when no listed item lacks a field), and no
\* (scope, page) pair is requested twice.
C12_WalkTerminates ==
    /\ <>WalkEnded
    /\ (absent = <<>>) ~> (pc = "done")
    /\ [](\A j, k \in 1..Len(log) :
            (log[j].scope = log[k].scope /\ log[j].page = log[k].page) => j = k)

\* A walk has returned nil after one request for every compartment and the
\* root, and one more for the second page of a listing below the root.
C12_Witness ==
    /\ WalkReturnedNil
    /\ Len(log) = MaxComps + 2
    /\ \E k \in 1..Len(log) : log[k].scope # TenancyOCID /\ log[k].page # NoPage

\* The compartments below scope s in depth-first pre-order: each listed
\* compartment, then everything below it, then the next one of the listing.
RECURSIVE PreorderOf(_), PreorderSeq(_)
PreorderSeq(items) ==
    IF items = <<>> THEN <<>>
    ELSE <<Head(items)>> \o PreorderOf(Head(items)) \o PreorderSeq(Tail(items))
PreorderOf(s) == PreorderSeq(Listing(parent, s))

\* The number of compartments between c and the tenancy root.
RECURSIVE DepthOf(_)
DepthOf(c) == IF parent[c] = TenancyOCID THEN 0 ELSE 1 + DepthOf(parent[c])

\* C13: the walk is depth-first pre-order: the visits so far are an initial
\* part of the pre-order of the tree (a compartment before its subtree, its
\* whole subtree before its next sibling), all of it when the walk returns
\* nil; a direct child of the root is printed at depth 0 and every other
\* compartment one deeper than its parent, on whichever page it was listed.
C13_DepthFirstPreorder ==
    cmd = "walk" =>
        /\ IsPrefix(VisitedIds, PreorderOf(TenancyOCID))
        /\ WalkReturnedNil => VisitedIds = PreorderOf(TenancyOCID)
        /\ \A k \in 1..Len(Visits) : Visits[k].depth = DepthOf(Visits[k].id)

\* A completed walk that printed a compartment at depth 1 and then went back
\* to a depth-0 sibling that was listed on the second page of the root.
C13_Witness ==
    /\ WalkReturnedNil
    /\ Len(pages[TenancyOCID]) > 1
    /\ \E j, k \in 1..Len(Visits) :
        j < k /\ Visits[j].depth = 1 /\ Visits[k].depth = 0

\* C21 (as claimed): whatever the listing responses hold, items served
\* without an identifier, a name or a description included, the walk
\* never reaches a crash (nil dereference): it ends by returning, and a
\* walk that met no failed request returns nil.
C21_NoCrashOnAbsentField ==
    cmd = "walk" =>
        /\ pc # "panic"
        /\ (pc = "done" /\ ~WalkCallFailed) => exit = 0

(***************************************************************************)
(* Properties of the resolvers.                                            *)
(***************************************************************************)
RECURSIVE Flatten(_)
Flatten(pp) == IF pp = <<>> THEN <<>> ELSE Head(pp) \o Flatten(Tail(pp))

\* The full listing of the tenancy root: all its pages, in order.
RootListing == Flatten(pages[TenancyOCID])

\* The compartments of the root listing whose display name is str, in order.
NamedCompartments(str) ==
    LET Named(c) == cname[c] = str
    IN SelectSeq(RootListing, Named)

\* The literal compartment-identifier format.
LiteralFormat(str) ==
    /\ Len(str) >= 4
    /\ str[1] = "ocid1" /\ str[2] \in {"compartment", "tenancy"} /\ str[3] = "oc1"

IsCall(op) == LET Is(e) == e.op = op IN SelectSeq(log, Is)
ImageCalls == IsCall("ListImages")

ResolveReturned == cmd = "resolve" /\ pc = "resolved"
AllCallsOk == \A k \in 1..Len(log) : log[k].ok

\* C2: an input in the literal compartment-identifier format is returned
\* unchanged, without error and without any remote request.
C2_LiteralUnchangedNoCall ==
    (ResolveReturned /\ LiteralFormat(input)) => (res = Ok(input) /\ log = <<>>)

C2_Witness ==
    /\ ResolveReturned /\ input = TenancyOcidString
    /\ res = Ok(input) /\ log = <<>>

\* C3 (as claimed): a name borne by exactly one compartment of the full
\* tenancy-root listing, all pages taken together, resolves to that
\* compartment's identifier.
C3_UniqueNameResolves ==
    (/\ ResolveReturned /\ ~LiteralFormat(input) /\ AllCallsOk
     /\ Len(NamedCompartments(input)) = 1)
        => res = Ok(OcidOf(NamedCompartments(input)[1]))

\* C4: matching is exact and case-sensitive: a name that no compartment of
\* the root listing bears character for character yields a not-found error
\* and no identifier.
C4_NoExactMatchNotFound ==
    (/\ ResolveReturned /\ ~LiteralFormat(input) /\ AllCallsOk
     /\ Len(NamedCompartments(input)) = 0)
        => res = Err("NotFoundError")

\* "dev" asked for while a compartment of the root listing is named "Dev".
C4_Witness ==
    /\ ResolveReturned /\ input = <<"dev">> /\ AllCallsOk
    /\ \E k \in 1..Len(RootListing) : cname[RootListing[k]] = <<"Dev">>
    /\ res = Err("NotFoundError")

\* The images of scope s named nm, in response order.
NamedImages(s, nm) ==
    LET Named(im) == im.name = nm
    IN SelectSeq(images[s], Named)

PrimaryItems == NamedImages(ScopeIndex(compartmentID), imageName)
FallbackItems == NamedImages(TenancyOCID, imageName)
ImageReturned == cmd = "image" /\ pc = "imageResolved"
HasWarning == \E k \in 1..Len(out) : out[k].kind = "warning"

\* C5 (as claimed): a name matched by two or more items of the listing
\* resolves, without failure, to the first of them in response order, for
\* compartments as for images.
C5_FirstOfSeveral ==
    /\ (/\ ResolveReturned /\ ~LiteralFormat(input) /\ AllCallsOk
        /\ Len(NamedCompartments(input)) >= 2)
           => res = Ok(OcidOf(NamedCompartments(input)[1]))
    /\ (/\ ImageReturned /\ AllCallsOk /\ ScopeIndex(compartmentID) # -1
        /\ Len(PrimaryItems) >= 2)
           => res = Ok(PrimaryItems[1].id)
    /\ (/\ ImageReturned /\ AllCallsOk /\ ScopeIndex(compartmentID) # -1
        /\ Len(PrimaryItems) = 0 /\ Len(FallbackItems) >= 2)
           => res = Ok(FallbackItems[1].id)

\* C6 (as claimed): whenever a resolver of any kind returns one of several
\* items sharing the requested name, a warning has been emitted.
C6_WarningOnEveryTie ==
    /\ (/\ ResolveReturned /\ res.kind = "ok" /\ ~LiteralFormat(input)
        /\ Len(NamedCompartments(input)) >= 2) => HasWarning
    /\ (/\ cmd = "image" /\ res.kind = "ok"
        /\ \/ Len(PrimaryItems) >= 2
           \/ Len(PrimaryItems) = 0 /\ Len(FallbackItems) >= 2) => HasWarning

\* C6 (amended): whenever image resolution, in the primary or the fallback
\* query, returns one of several items sharing the requested display name,
\* a warning has been emitted by the time the identifier is returned.
C6_WarningOnImageTie ==
    (/\ cmd = "image" /\ res.kind = "ok"
     /\ \/ Len(PrimaryItems) >= 2
        \/ Len(PrimaryItems) = 0 /\ Len(FallbackItems) >= 2) => HasWarning

\* The fallback query returned two images of the name and one was picked.
C6_Witness ==
    /\ ImageReturned /\ res.kind = "ok"
    /\ Len(PrimaryItems) = 0 /\ Len(FallbackItems) >= 2
    /\ Len(ImageCalls) = 2
    /\ HasWarning

\* C7: when the primary query returns no items and the fallback query
\* against the tenancy root, with the same display-name filter, returns at
\* least one, the result is the first fallback item; and a fallback query
\* is only ever issued after a primary query that succeeded with no items.
C7_FallbackMatchReturned ==
    cmd = "image" =>
        /\ (/\ pc = "imageResolved" /\ Len(ImageCalls) = 2 /\ AllCallsOk
            /\ Len(PrimaryItems) = 0 /\ Len(FallbackItems) >= 1)
               => res = Ok(FallbackItems[1].id)
        /\ Len(ImageCalls) <= 2
        /\ Len(ImageCalls) >= 1 =>
               /\ ImageCalls[1].scope = compartmentID
               /\ ImageCalls[1].filter = imageName
        /\ Len(ImageCalls) = 2 =>
               /\ ImageCalls[1].ok /\ Len(PrimaryItems) = 0
               /\ ImageCalls[2].scope = TenancyOcidString
               /\ ImageCalls[2].filter = imageName

\* Nothing in a compartment other than the tenancy, two images of the name
\* in the tenancy root.
C7_Witness ==
    /\ ImageReturned /\ compartmentID = OcidOf(1)
    /\ Len(PrimaryItems) = 0 /\ Len(FallbackItems) = 2
    /\ res = Ok(FallbackItems[1].id)

\* C8: not-found is returned only after both queries were issued and both
\* returned an empty list; a query that returns a non-empty list leads to an
\* identifier; a failed query leads to a remote-call error.
C8_NotFoundOnlyAfterBothEmpty ==
    ImageReturned =>
        /\ res.kind = "NotFoundError" =>
               /\ Len(ImageCalls) = 2 /\ AllCallsOk
               /\ Len(PrimaryItems) = 0 /\ Len(FallbackItems) = 0
        /\ (ImageCalls[1].ok /\ Len(PrimaryItems) > 0) => res.kind = "ok"
        /\ (Len(ImageCalls) = 2 /\ ImageCalls[2].ok /\ Len(FallbackItems) > 0)
               => res.kind = "ok"
        /\ (\E k \in 1..Len(ImageCalls) : ~ImageCalls[k].ok) <=> res.kind = "RemoteCallError"

C8_Witness ==
    /\ ImageReturned /\ res.kind = "NotFoundError"
    /\ Len(ImageCalls) = 2 /\ compartmentID = OcidOf(1)
    /\ images[1] # <<>>

(***************************************************************************)
(* Properties of instances create.                                         *)
(***************************************************************************)
\* The --public-keys value holds nothing but whitespace and commas.
NoKeyIn(str) == \A k \in 1..Len(str) : str[k] \in {" ", ","}

\* C9 (as claimed): with a --public-keys value that is empty or holds only
\* whitespace and commas, instances create sends no remote request at all.
C9_NoKeyNoRemoteCall ==
    (cmd = "create" /\ NoKeyIn(publicKeys)) => log = <<>>

(***************************************************************************)
(* Properties of the shape validation.                                     *)
(***************************************************************************)
\* The names of the shapes the service lists as compatible.
CompatibleShapes == {shapes[k] : k \in 1..Len(shapes)} \ {NoShape}

ShapeReturned == cmd = "shape" /\ pc = "shapeResolved"

\* C14: resolveShapeNameToID succeeds exactly when its ListShapes request
\* was answered and the requested name, character for character, is the
\* name of a listed shape; it then returns the requested name unchanged;
\* when the request was answered and the name is not listed it returns the
\* not-found error.
C14_ShapeValidated ==
    ShapeReturned =>
        LET answered == log[Len(log)].ok
        IN /\ res.kind = "ok" <=> (answered /\ shapeName \in CompatibleShapes)
           /\ res.kind = "ok" => res.id = shapeName
           /\ (answered /\ shapeName \notin CompatibleShapes) => res = Err("NotFoundError")

\* The requested name was found as the last item of a full list, after an
\* item without a name and an item whose name differs in case only.
C14_Witness ==
    /\ ShapeReturned /\ res = Ok(shapeName)
    /\ Len(shapes) = MaxShapes /\ shapes[MaxShapes] = shapeName
    /\ shapes[1] = NoShape
    /\ shapes[2] \notin {NoShape, shapeName}

(***************************************************************************)
(* Properties of the launch request of instances create.                   *)
(***************************************************************************)
NonEmptyKey(key) == key # <<>>

\* The entries of --public-keys, trimmed, without the empty ones.
KeptKeys(str) ==
    SelectSeq([k \in 1..Len(Split(str)) |-> TrimSpace(Split(str)[k])], NonEmptyKey)

\* The keys with one newline between each two consecutive keys.
RECURSIVE JoinNewline(_)
JoinNewline(ks) ==
    IF ks = <<>> THEN <<>>
    ELSE IF Len(ks) = 1 THEN ks[1]
    ELSE ks[1] \o <<"\n">> \o JoinNewline(Tail(ks))

\* C15: the ssh_authorized_keys value of the launch request is the trimmed,
\* non-empty entries of --public-keys with exactly one newline between
\* consecutive keys: no newline at either end and no empty line, wherever
\* the empty entries are.
C15_KeysJoinedByOneNewline ==
    launch.sent => launch.ssh_authorized_keys = JoinNewline(KeptKeys(publicKeys))

\* C16: the launch request carries a ShapeConfig exactly when --ocpus or
\* --memory-in-gbs is not zero, and it then holds the two flag values; with
\* both zero the request has no ShapeConfig.
C16_ShapeConfigIffSizing ==
    launch.sent =>
        /\ launch.ShapeConfig.present <=> (ocpus # 0 \/ memoryInGBs # 0)
        /\ launch.ShapeConfig.present =>
            (launch.ShapeConfig.Ocpus = ocpus /\ launch.ShapeConfig.MemoryInGBs = memoryInGBs)
        /\ (ocpus = 0 /\ memoryInGBs = 0) => launch.ShapeConfig = NoShapeConfig

\* A launch with --memory-in-gbs alone carried a ShapeConfig.
C16_Witness ==
    /\ launch.sent /\ ocpus = 0 /\ memoryInGBs # 0
    /\ launch.ShapeConfig.present /\ launch.ShapeConfig.MemoryInGBs = memoryInGBs

\* The positions of the LaunchInstance calls in the request log.
LaunchCalls == {k \in 1..Len(log) : log[k].op = "LaunchInstance"}

\* The place of a remote operation in the steps of instances create.
StepOf(op) ==
    CASE op = "ListCompartments" -> 4
      [] op = "ListImages" -> 5
      [] op = "ListShapes" -> 6
      [] OTHER -> 13

\* The compartment, the image and the shape of the launch request are what
\* the three resolutions give on the remote data.
LaunchResolved ==
    /\ IF input = <<>> THEN launch.CompartmentId = TenancyOcidString
       ELSE IF LiteralFormat(input) THEN launch.CompartmentId = input
       ELSE /\ Len(IsCall("ListCompartments")) = 1
            /\ \E c \in Comps : cname[c] = input /\ launch.CompartmentId = OcidOf(c)
    /\ Len(ImageCalls) \in {1, 2}
    /\ \E s \in Scopes : \E k \in 1..Len(images[s]) :
        images[s][k].name = imageName /\ images[s][k].id = launch.ImageId
    /\ Len(IsCall("ListShapes")) = 1
    /\ launch.Shape = shapeName /\ shapeName \in CompatibleShapes

\* C17: one invocation of instances create sends at most one LaunchInstance
\* call; before it the compartment, the image and the shape were resolved
\* by answered requests in that order and the SSH-key check passed; it is
\* the last remote call of the invocation.
C17_OneLaunchAfterAllChecks ==
    cmd = "create" =>
        /\ Cardinality(LaunchCalls) <= 1
        /\ launch.sent <=> LaunchCalls # {}
        /\ \A k \in LaunchCalls :
            /\ k = Len(log)
            /\ \A j \in 1..(k - 1) : log[j].ok
            /\ \A i, j \in 1..k : i < j => StepOf(log[i].op) <= StepOf(log[j].op)
            /\ LaunchResolved
            /\ ~NoKeyIn(publicKeys)

\* A launch was answered after a compartment name was resolved and the
\* image was found by the fallback query; the command has ended.
C17_Witness ==
    /\ cmd = "create" /\ pc = "done" /\ exit = 0 /\ launch.sent
    /\ [k \in 1..Len(log) |-> log[k].op] =
         <<"ListCompartments", "ListImages", "ListImages", "ListShapes", "LaunchInstance">>

(***************************************************************************)
(* Properties of the instance commands.                                    *)
(***************************************************************************)
ListReturned == cmd = "list" /\ pc = "done"
ListInstancesCalls == IsCall("ListInstances")

\* The log of a run that listed scope str and sent nothing after it.
ListedOnce(str) ==
    /\ Len(ListInstancesCalls) = 1
    /\ ListInstancesCalls[1].scope = str
    /\ log[Len(log)].op = "ListInstances"

\* C20: instances list chooses the scope by precedence.  With a non-empty
\* --tenancy the tenancy root is listed and the only request is that one
\* ListInstances (no compartment resolution).  Otherwise a non-empty
\* --compartment-id is resolved and, when the resolution succeeds, its
\* result is listed by exactly one ListInstances request; a failed
\* resolution ends the command without a ListInstances request.  With
\* neither flag the tenancy root is listed by the only request.
C20_ListScopePrecedence ==
    ListReturned =>
        IF tenancyFlag # <<>> \/ input = <<>>
        THEN Len(log) = 1 /\ ListedOnce(TenancyOcidString)
        ELSE IF res.kind = "ok"
        THEN /\ ListedOnce(res.id)
             /\ LiteralFormat(input) => (res.id = input /\ Len(log) = 1)
             /\ ~LiteralFormat(input) =>
                    (Len(log) = 2 /\ \E c \in Comps : cname[c] = input /\ res.id = OcidOf(c))
        ELSE ListInstancesCalls = <<>> /\ exit = 1

\* --tenancy was given together with a compartment name that would have
\* resolved to another compartment, and the instances of the root were
\* printed.
C20_Witness ==
    /\ ListReturned /\ exit = 0
    /\ tenancyFlag # <<>> /\ input = <<"dev">>
    /\ Len(out) = MaxInstances

\* The run ended in an error of the taxonomy: a remote call failed, a
\* resolver returned an error, --id and --name were both given or both
\* left out, no instance of the listed compartment has the --name asked
\* for, a required flag was not given, or --public-keys holds no key.
ErrorEnded ==
    \/ \E k \in 1..Len(log) : ~log[k].ok
    \/ res.kind \notin {"none", "ok"}
    \/ /\ cmd = "info"
       /\ \/ (idFlag # <<>>) <=> (nameFlag # <<>>)
          \/ /\ idFlag = <<>> /\ nameFlag # <<>>
             /\ log # <<>> /\ log[Len(log)].op = "ListInstances" /\ log[Len(log)].ok
             /\ \A k \in 1..Len(instances) :
                    instances[k].comp = compartmentID => instances[k].name # nameFlag
    \/ cmd = "create" /\ (missing \/ NoKeyIn(publicKeys))

\* C18 (as claimed): a command that ends in an error of the taxonomy ends
\* with a non-zero exit status, and nothing is requested after a failed
\* remote call; instances info --name without a bearer of the name and a
\* command with a missing required flag are such errors.
C18_ErrorsExitNonZero ==
    /\ \A k \in 1..Len(log) : ~log[k].ok => k = Len(log)
    /\ (pc = "done" /\ ErrorEnded) => exit = 1

\* The remote operations that only read.
ReadOnlyOps == {"ListCompartments", "ListImages", "ListShapes", "ListInstances", "GetInstance"}

\* C19: the remote instances (the set and every lifecycle state) change
\* only in the step of instances create that sends LaunchInstance, and the
\* compartments, images and shapes never change; every request of every
\* other command and of the resolvers is a list or get request.
C19_OnlyLaunchChangesRemote ==
    /\ [][instances' # instances =>
            (cmd = "create" /\ Len(log') = Len(log) + 1
             /\ log'[Len(log')].op = "LaunchInstance")]_vars
    /\ [][catalog' = catalog]_vars
    /\ [](\A k \in 1..Len(log) :
            \/ log[k].op \in ReadOnlyOps
            \/ log[k].op = "LaunchInstance" /\ cmd = "create" /\ k = Len(log))

\* instances create has ended after an answered LaunchInstance that came
\* after three read-only requests: the service holds one more instance,
\* in state PROVISIONING.
C19_Witness ==
    /\ cmd = "create" /\ pc = "done" /\ exit = 0
    /\ Len(log) >= 4
    /\ Len(instances) = 1 /\ instances[1].state = "PROVISIONING"

====
